---- MODULE Spec2Model ----
(***************************************************************************)
(* Model of go-logx: the sensitive-key registry and value masker           *)
(* (mask.go), the Logger with its sticky fields (logger.go) and the        *)
(* process-wide default logger guarded by sync.Once (logx.go).             *)
(*                                                                         *)
(* A Go string is a sequence of bytes; a byte is written as a one-element  *)
(* TLA+ string.  "C3" and "A9" are the two bytes of one two-byte UTF-8     *)
(* character.  A field key is a sequence of bytes as well, so that         *)
(* strings.ToLower is computed and not assumed.                            *)
(***************************************************************************)
EXTENDS Integers, Sequences, FiniteSets, TLC

VARIABLES
    sensitiveKeys,  \* mask.go: the registry map, as the set of its keys
    once,           \* logx.go: TRUE once once.Do has run its function
    firstInit,      \* history: what the first Init call came to (its error, or a panic)
    defaultLogger,  \* logx.go: the default slot, a Logger id or Nil
    loggers,        \* heap of Logger structs: loggers[id] = [zapLogger, fields]
    arrays,         \* heap of backing arrays of []Field slices
    engines,        \* the zap loggers built by New: engines[id] = [level, output, ...]
    call,           \* the most recent call of the API and what it returned
    handed,         \* the most recent entry handed to an engine
    process,        \* the calling process: running, unwinding a panic, or exited
    held,           \* a *Logger variable of the caller: a Logger id or Nil
    sensitiveKeysMu, \* mask.go: the RWMutex of the registry, who holds it
    goroutines,     \* the goroutines that use the registry at once: the call each is in
    settled,        \* history: the keys an add has returned for, no remove begun since
    changedAt,      \* history: how many Loggers existed when the registry last changed
    onceM,          \* logx.go: the mutex inside once, the goroutine that holds it or Nil
    mp              \* memory_profiler.go: a MemoryProfiler, its caller and its sampler

\* the state of the concurrent callers of the registry
conc == <<sensitiveKeysMu, goroutines, settled>>

vars == <<sensitiveKeys, once, firstInit, defaultLogger, loggers, arrays, engines, call, handed,
          process, held, conc, changedAt, onceM, mp>>

Nil == 0

(***************************************************************************)
(* Bounds of the model.                                                    *)
(***************************************************************************)
MaxTextLen == 6     \* longest text value given to the masker
MaxLoggers == 3     \* Logger structs alive at once
MaxSticky == 2      \* longest sticky-field list a With may build
MaxLogCallers == 2  \* goroutines making log calls at once
MaxSamples == 3     \* samples the ticker lets the profiler take
MaxGoroutines == 3  \* goroutines calling the registry, or Init, at once

(***************************************************************************)
(* Texts.                                                                  *)
(***************************************************************************)
Bytes == {"a", "C3", "A9"}

RECURSIVE TextsUpTo(_)
TextsUpTo(n) ==
    IF n = 0 THEN {<< >>}
    ELSE LET shorter == TextsUpTo(n - 1)
         IN  shorter \cup {Append(t, b) : t \in {s \in shorter : Len(s) = n - 1}, b \in Bytes}

UpperCase == <<"A","B","C","D","E","F","G","H","I","J","K","L","M",
               "N","O","P","Q","R","S","T","U","V","W","X","Y","Z">>
LowerCase == <<"a","b","c","d","e","f","g","h","i","j","k","l","m",
               "n","o","p","q","r","s","t","u","v","w","x","y","z">>

\* strings.ToLower on one ASCII byte
\* a conversion that leaves every byte as it is
ToLowerByteAsIs(c) == c

ToLowerByte(c) ==
    IF \E i \in 1..26 : UpperCase[i] = c
    THEN LowerCase[CHOOSE i \in 1..26 : UpperCase[i] = c]
    ELSE c

\* strings.ToLower
ToLower(key) == [i \in 1..Len(key) |-> ToLowerByte(key[i])]

(***************************************************************************)
(* mask.go: the registry.                                                  *)
(***************************************************************************)
BuiltinSensitiveKeys == {
    <<"p","a","s","s","w","o","r","d">>,
    <<"p","a","s","s","w","d">>,
    <<"p","a","s","s">>,
    <<"s","s","n">>,
    <<"t","o","k","e","n">>,
    <<"a","p","i","k","e","y">>,
    <<"a","p","i","_","k","e","y">>,
    <<"s","e","c","r","e","t">>,
    <<"k","e","y">>,
    <<"e","m","a","i","l">>,
    <<"p","h","o","n","e">>,
    <<"c","r","e","d","i","t","_","c","a","r","d">>,
    <<"c","c">>,
    <<"c","v","v">>,
    <<"p","i","n">>,
    <<"a","u","t","h">>,
    <<"a","u","t","h","o","r","i","z","a","t","i","o","n">>,
    <<"b","e","a","r","e","r">>,
    <<"j","w","t">> }

\* the keys callers use: a built-in key and a custom key, in several cases
Keys == { <<"p","i","n">>, <<"P","I","N">>, <<"i","d">>, <<"I","d">> }

\* the keys the callers of the loggers add and remove
PinKeys == { <<"p","i","n">>, <<"P","i","n">> }

\* isSensitiveKey: sensitiveKeys[strings.ToLower(key)]
\* a lookup of the key as it is written
isSensitiveKeyExact(key) == key \in sensitiveKeys

isSensitiveKey(key) == ToLower(key) \in sensitiveKeys

(***************************************************************************)
(* Values of type interface{}: the dynamic type and the payload.           *)
(***************************************************************************)
StringValue(t) == [kind |-> "string", val |-> t]
BytesValue(t) == [kind |-> "[]byte", val |-> t]

OtherValues == {
    [kind |-> "int", val |-> <<"7">>],
    [kind |-> "int64", val |-> <<"7">>],
    [kind |-> "float64", val |-> <<"1", ".", "5">>],
    [kind |-> "bool", val |-> <<"true">>],
    [kind |-> "error", val |-> <<"e", "r", "r">>],
    [kind |-> "nil", val |-> << >>],
    [kind |-> "struct", val |-> <<"{", "7", "}">>] }

\* texts that hold the mark of the masker
StarTexts == { <<"*", "*", "*">>, <<"a", "*", "*", "*", "a">>,
               <<"a", "a", "*", "*", "*", "a", "a">>,
               <<"a", "a", "*", "a", "*", "a", "a">> }

MaskValues ==
    {StringValue(t) : t \in TextsUpTo(MaxTextLen) \cup StarTexts}
        \cup {BytesValue(t) : t \in TextsUpTo(MaxTextLen)}
        \cup OtherValues

Stars == <<"*", "*", "*">>
MaskedSentinel == <<"*","*","*","M","A","S","K","E","D","*","*","*">>

\* maskString with the second band cut one short: len(value) < 4
maskStringShortBand(value) ==
    IF Len(value) = 0 THEN << >>
    ELSE IF Len(value) <= 2 THEN Stars
    ELSE IF Len(value) < 4
         THEN SubSeq(value, 1, 1) \o Stars \o SubSeq(value, Len(value), Len(value))
    ELSE SubSeq(value, 1, 2) \o Stars \o SubSeq(value, Len(value) - 1, Len(value))

\* maskString that gives back the texts of the first band as they are
maskStringShortAsIs(value) ==
    IF Len(value) <= 2 THEN value
    ELSE IF Len(value) <= 4
         THEN SubSeq(value, 1, 1) \o Stars \o SubSeq(value, Len(value), Len(value))
    ELSE SubSeq(value, 1, 2) \o Stars \o SubSeq(value, Len(value) - 1, Len(value))

\* maskString: value[:n] and value[len(value)-n:] are byte slices
maskString(value) ==
    IF Len(value) = 0 THEN << >>
    ELSE IF Len(value) <= 2 THEN Stars
    ELSE IF Len(value) <= 4
         THEN SubSeq(value, 1, 1) \o Stars \o SubSeq(value, Len(value), Len(value))
    ELSE SubSeq(value, 1, 2) \o Stars \o SubSeq(value, Len(value) - 1, Len(value))

\* maskSensitiveData that turns a byte sequence into text before looking at the key
maskSensitiveDataTextFirst(key, value) ==
    LET v == IF value.kind = "[]byte" THEN StringValue(value.val) ELSE value
    IN  IF ~isSensitiveKey(key) THEN v
        ELSE CASE v.kind = "string" ->
                    IF v.val = << >> THEN v ELSE StringValue(maskString(v.val))
               [] OTHER -> StringValue(MaskedSentinel)

\* maskSensitiveData that lets a nil value through
maskSensitiveDataNilThrough(key, value) ==
    IF ~isSensitiveKey(key) \/ value.kind = "nil" THEN value
    ELSE CASE value.kind = "string" ->
                IF value.val = << >> THEN value
                ELSE StringValue(maskString(value.val))
           [] value.kind = "[]byte" ->
                IF Len(value.val) = 0 THEN value
                ELSE StringValue(maskString(value.val))
           [] OTHER -> StringValue(MaskedSentinel)

\* maskSensitiveData: the type switch on the dynamic type of value
maskSensitiveData(key, value) ==
    IF ~isSensitiveKey(key) THEN value
    ELSE CASE value.kind = "string" ->
                IF value.val = << >> THEN value
                ELSE StringValue(maskString(value.val))
           [] value.kind = "[]byte" ->
                IF Len(value.val) = 0 THEN value
                ELSE StringValue(maskString(value.val))
           [] OTHER -> StringValue(MaskedSentinel)


(***************************************************************************)
(* logx.go: levels and configurations.                                     *)
(***************************************************************************)
TraceLevel == 0
DebugLevel == 1
InfoLevel == 2
WarnLevel == 3
ErrorLevel == 4
FatalLevel == 5

\* zapcore levels
ZapDebug == -1
ZapInfo == 0
ZapWarn == 1
ZapError == 2
ZapFatal == 5

NilConfig == [isNil |-> TRUE]

DefaultConfig ==
    [isNil |-> FALSE, Level |-> InfoLevel, OutputPath |-> "", Development |-> FALSE,
     AddCaller |-> TRUE, AddStacktrace |-> TRUE]

FileConfig ==
    [isNil |-> FALSE, Level |-> DebugLevel, OutputPath |-> "app.log", Development |-> FALSE,
     AddCaller |-> FALSE, AddStacktrace |-> FALSE]

DevConfig ==
    [isNil |-> FALSE, Level |-> TraceLevel, OutputPath |-> "app.log", Development |-> TRUE,
     AddCaller |-> TRUE, AddStacktrace |-> FALSE]

\* values of type error: the nil error and the one New wraps from os.OpenFile
NoError == "<nil>"
OpenFileError == "failed to open log file"

(***************************************************************************)
(* Go slices of Field: a slice is a window [arr, len, cap] on a backing    *)
(* array of the heap; append writes in place while the capacity lasts.     *)
(***************************************************************************)
NilValue == [kind |-> "nil", val |-> << >>]
ZeroField == [Key |-> << >>, Value |-> NilValue]

\* []Field{} and make([]Field, 0): no backing array
EmptySlice == [arr |-> Nil, len |-> 0, cap |-> 0]

NextId(f) == Len(f) + 1

\* the elements a slice shows
Elems(heap, s) == [i \in 1..s.len |-> heap[s.arr][i]]

\* runtime.growslice for small slices of 32-byte elements
growslice(oldCap, needed) == IF needed > 2 * oldCap THEN needed ELSE 2 * oldCap

\* make([]Field, 0, c)
GoMake(heap, c) ==
    IF c = 0 THEN [slice |-> EmptySlice, heap |-> heap]
    ELSE [slice |-> [arr |-> NextId(heap), len |-> 0, cap |-> c],
          heap |-> Append(heap, [i \in 1..c |-> ZeroField])]

\* append(s, xs...)
GoAppend(heap, s, xs) ==
    IF Len(xs) = 0 THEN [slice |-> s, heap |-> heap]
    ELSE IF s.len + Len(xs) <= s.cap
    THEN [slice |-> [s EXCEPT !.len = s.len + Len(xs)],
          heap |-> [heap EXCEPT ![s.arr] =
                      [i \in 1..s.cap |->
                          IF i > s.len /\ i <= s.len + Len(xs) THEN xs[i - s.len] ELSE @[i]]]]
    ELSE LET c == growslice(s.cap, s.len + Len(xs))
             a == NextId(heap)
         IN  [slice |-> [arr |-> a, len |-> s.len + Len(xs), cap |-> c],
              heap |-> Append(heap, [i \in 1..c |->
                          IF i <= s.len THEN heap[s.arr][i]
                          ELSE IF i <= s.len + Len(xs) THEN xs[i - s.len]
                          ELSE ZeroField])]


(***************************************************************************)
(* logger.go: New.                                                         *)
(***************************************************************************)
\* a switch on config.Level without the case for WarnLevel
ZapLevelOfNoWarn(level) ==
    CASE level = TraceLevel -> ZapDebug
      [] level = DebugLevel -> ZapDebug
      [] level = InfoLevel -> ZapInfo
      [] level = ErrorLevel -> ZapError
      [] level = FatalLevel -> ZapFatal
      [] OTHER -> ZapInfo

\* the switch on config.Level; an unknown level keeps the initial InfoLevel
ZapLevelOf(level) ==
    CASE level = TraceLevel -> ZapDebug
      [] level = DebugLevel -> ZapDebug
      [] level = InfoLevel -> ZapInfo
      [] level = WarnLevel -> ZapWarn
      [] level = ErrorLevel -> ZapError
      [] level = FatalLevel -> ZapFatal
      [] OTHER -> ZapInfo

\* the zap core and options New builds, with the Level it was configured from
NewEngine(config) ==
    [level |-> ZapLevelOf(config.Level),
     configLevel |-> config.Level,
     encoder |-> IF config.Development THEN "console" ELSE "json",
     output |-> IF ~config.Development /\ config.OutputPath # "" THEN config.OutputPath
                ELSE "stdout",
     addCaller |-> config.AddCaller,
     addStacktrace |-> config.AddStacktrace]

\* New(config): what it returns and the heaps afterwards
New(config, canOpen) ==
    IF config.isNil
    THEN [logger |-> Nil, err |-> NoError, panic |-> TRUE, loggers |-> loggers, engines |-> engines]
    ELSE IF ~config.Development /\ config.OutputPath # "" /\ ~canOpen
    THEN [logger |-> Nil, err |-> OpenFileError, panic |-> FALSE,
          loggers |-> loggers, engines |-> engines]
    ELSE [logger |-> NextId(loggers), err |-> NoError, panic |-> FALSE,
          loggers |-> Append(loggers, [zapLogger |-> NextId(engines), fields |-> EmptySlice]),
          engines |-> Append(engines, NewEngine(config))]

\* the sticky fields of Logger l, read through its slice
Sticky(l) == Elems(arrays, loggers[l].fields)

(***************************************************************************)
(* logger.go: convertFields, the leveled methods, With.                    *)
(***************************************************************************)
\* convertFields that keeps one field per key, the last one
convertFieldsLastWins(fields) ==
    LET kept == {i \in 1..Len(fields) : \A j \in (i + 1)..Len(fields) : fields[j].Key # fields[i].Key}
        nth(k) == CHOOSE i \in kept : Cardinality({j \in kept : j < i}) = k - 1
    IN  [k \in 1..Cardinality(kept) |->
            [Key |-> fields[nth(k)].Key,
             Value |-> maskSensitiveData(fields[nth(k)].Key, fields[nth(k)].Value)]]

\* convertFields: zap.Any(field.Key, maskSensitiveData(field.Key, field.Value))
convertFields(fields) ==
    [i \in 1..Len(fields) |->
        [Key |-> fields[i].Key, Value |-> maskSensitiveData(fields[i].Key, fields[i].Value)]]

Methods == {"Trace", "Debug", "Info", "Warn", "Error"}

\* the zap method each leveled method calls
ZapMethodOf(method) ==
    CASE method = "Trace" -> ZapDebug
      [] method = "Debug" -> ZapDebug
      [] method = "Info" -> ZapInfo
      [] method = "Warn" -> ZapWarn
      [] method = "Error" -> ZapError
      [] method = "Fatal" -> ZapFatal

\* allFields := append(l.fields, fields...)
allFields(l, fields) == GoAppend(arrays, loggers[l].fields, fields)

\* a leveled method: the entry handed to the engine and the heap afterwards
\* (a backing array allocated for allFields is garbage once the call returns)
LoggerLog(l, method, msg, fields) ==
    LET all == allFields(l, fields)
    IN  [entry |-> [engine |-> loggers[l].zapLogger,
                    level |-> ZapMethodOf(method),
                    msg |-> msg,
                    fields |-> convertFields(Elems(all.heap, all.slice))],
         arrays |-> IF all.slice.arr = loggers[l].fields.arr THEN all.heap ELSE arrays]

\* With that makes its list with room for one more field
LoggerWithSpare(l, fields) ==
    LET made == GoMake(arrays, loggers[l].fields.len + Len(fields) + 1)
        own == GoAppend(made.heap, made.slice, Sticky(l))
        new == GoAppend(own.heap, own.slice, fields)
    IN  [logger |-> NextId(loggers),
         loggers |-> Append(loggers, [zapLogger |-> loggers[l].zapLogger, fields |-> new.slice]),
         arrays |-> new.heap]

\* With that grows the receiver's own list: l.fields = append(l.fields, fields...)
LoggerWithInPlace(l, fields) ==
    LET new == GoAppend(arrays, loggers[l].fields, fields)
    IN  [logger |-> NextId(loggers),
         loggers |-> Append([loggers EXCEPT ![l].fields = new.slice],
                            [zapLogger |-> loggers[l].zapLogger, fields |-> new.slice]),
         arrays |-> new.heap]

\* With that puts the given fields before the receiver's
LoggerWithGivenFirst(l, fields) ==
    LET made == GoMake(arrays, loggers[l].fields.len + Len(fields))
        given == GoAppend(made.heap, made.slice, fields)
        new == GoAppend(given.heap, given.slice, Sticky(l))
    IN  [logger |-> NextId(loggers),
         loggers |-> Append(loggers, [zapLogger |-> loggers[l].zapLogger, fields |-> new.slice]),
         arrays |-> new.heap]

\* With that masks the given fields as it stores them
LoggerWithMasked(l, fields) ==
    LET made == GoMake(arrays, loggers[l].fields.len + Len(fields))
        own == GoAppend(made.heap, made.slice, Sticky(l))
        new == GoAppend(own.heap, own.slice, convertFields(fields))
    IN  [logger |-> NextId(loggers),
         loggers |-> Append(loggers, [zapLogger |-> loggers[l].zapLogger, fields |-> new.slice]),
         arrays |-> new.heap]

\* With: the new Logger and the heaps afterwards
LoggerWith(l, fields) ==
    LET made == GoMake(arrays, loggers[l].fields.len + Len(fields))
        own == GoAppend(made.heap, made.slice, Sticky(l))
        new == GoAppend(own.heap, own.slice, fields)
    IN  [logger |-> NextId(loggers),
         loggers |-> Append(loggers, [zapLogger |-> loggers[l].zapLogger, fields |-> new.slice]),
         arrays |-> new.heap]

(***************************************************************************)
(* fmt.Sprintf on a template of literal chunks and the verbs %s and %v.    *)
(***************************************************************************)
Verbs == {"%s", "%v"}

\* one operand under one verb
FormatArg(verb, arg) ==
    IF arg.kind = "string" \/ verb = "%v" THEN arg.val
    ELSE <<"%!s(", arg.kind, "=">> \o arg.val \o <<")">>

RECURSIVE ExtraArgs(_)
ExtraArgs(args) ==
    IF Len(args) = 0 THEN << >>
    ELSE <<args[1].kind, "=">> \o args[1].val
            \o (IF Len(args) > 1 THEN <<", ">> ELSE << >>) \o ExtraArgs(Tail(args))

RECURSIVE Sprintf(_, _)
Sprintf(format, args) ==
    IF Len(format) = 0
    THEN IF Len(args) = 0 THEN << >> ELSE <<"%!(EXTRA ">> \o ExtraArgs(args) \o <<")">>
    ELSE IF format[1] \in Verbs
    THEN IF Len(args) = 0
         THEN (IF format[1] = "%s" THEN <<"%!s(MISSING)">> ELSE <<"%!v(MISSING)">>)
                 \o Sprintf(Tail(format), args)
         ELSE FormatArg(format[1], args[1]) \o Sprintf(Tail(format), Tail(args))
    ELSE <<format[1]>> \o Sprintf(Tail(format), args)

\* a formatted method that masks its text operands before formatting them
LoggerLogfMasked(l, method, format, args) ==
    LoggerLog(l, method,
              Sprintf(format, [i \in 1..Len(args) |->
                                  IF args[i].kind = "string"
                                  THEN StringValue(maskString(args[i].val)) ELSE args[i]]),
              << >>)

\* a formatted method: msg := fmt.Sprintf(format, args...); l.<Method>(msg)
LoggerLogf(l, method, format, args) == LoggerLog(l, method, Sprintf(format, args), << >>)


(***************************************************************************)
(* Inputs of the calls.                                                    *)
(***************************************************************************)
Secret == <<"1", "2", "3", "4", "5">>
PinField == [Key |-> <<"p","i","n">>, Value |-> StringValue(Secret)]
IdField == [Key |-> <<"I","d">>, Value |-> [kind |-> "int", val |-> <<"7">>]]

\* the field lists given to With and to the leveled methods
FieldSeqs == { << >>, <<PinField>>, <<IdField>>, <<PinField, IdField>>,
               <<IdField, PinField>>, <<PinField, PinField>> }

Msg == <<"m">>

\* the templates and operand lists given to the formatted methods
Formats == { <<"u", "=", "%s">>, <<"%v", "%s">> }
ArgSeqs == { << >>, <<StringValue(Secret)>>, <<[kind |-> "int", val |-> <<"7">>]>>,
             <<StringValue(Secret), StringValue(Secret)>>,
             <<[kind |-> "int", val |-> <<"7">>], StringValue(Secret)>>,
             <<StringValue(Secret), StringValue(Secret), StringValue(Secret)>> }

NoAttempt == [made |-> FALSE, err |-> NoError, panic |-> FALSE]

NoCall == [op |-> "none", recv |-> Nil, in |-> << >>, out |-> << >>]
NoEntry == [engine |-> Nil, level |-> ZapInfo, msg |-> << >>, fields |-> << >>]

\* a goroutine that is in no call of the registry
Goroutines == 1..MaxGoroutines
IdleGoroutine ==
    [pc |-> "idle", op |-> "none", key |-> << >>, result |-> FALSE, expect |-> FALSE,
     in |-> << >>, seen |-> Nil, err |-> NoError, built |-> 0,
     all |-> [shared |-> TRUE, slice |-> EmptySlice, elems |-> << >>]]
Unlocked == [writer |-> Nil, readers |-> {}]

\* NewMemoryProfiler(): no sampling, an open stopChan, an empty WaitGroup.
\* caller and sampler are the places of the goroutine that calls Start and
\* Stop and of the goroutine that Start spawns; ticking and tick are the
\* ticker of the sampler and the value waiting in its channel.
NewMemoryProfiler ==
    [mu |-> "none", samplingEnabled |-> FALSE, closed |-> FALSE, wg |-> 0, samples |-> 0,
     ticking |-> FALSE, tick |-> FALSE, caller |-> "idle", sampler |-> "none",
     report |-> FALSE]

\* the process: it runs, it unwinds a panic (a deferred recover may stop it),
\* or it has left through os.Exit(status)
Running == [state |-> "running", status |-> 0]
Panicking == [state |-> "panicking", status |-> 0]
Exited(status) == [state |-> "exited", status |-> status]

(***************************************************************************)
(* The calls of the API, one action each.                                  *)
(***************************************************************************)
Init ==
    /\ sensitiveKeys = BuiltinSensitiveKeys
    /\ once = FALSE
    /\ firstInit = NoAttempt
    /\ defaultLogger = Nil
    /\ loggers = << >>
    /\ arrays = << >>
    /\ engines = << >>
    /\ call = NoCall
    /\ handed = NoEntry
    /\ process = Running
    /\ held = Nil
    /\ sensitiveKeysMu = Unlocked
    /\ goroutines = [g \in Goroutines |-> IdleGoroutine]
    /\ settled = {}
    /\ changedAt = 0
    /\ onceM = Nil
    /\ mp = NewMemoryProfiler

\* an add that stores the key as it is written
AddSensitiveKeyAsGiven(key) ==
    /\ sensitiveKeys' = sensitiveKeys \cup {key}
    /\ call' = [op |-> "AddSensitiveKey", recv |-> Nil, in |-> <<key>>, out |-> << >>]
    /\ handed' = NoEntry
    /\ UNCHANGED <<mp, onceM, conc, held, process, once, firstInit, defaultLogger, loggers, arrays, engines>>

AddSensitiveKey(key) ==
    /\ sensitiveKeys' = sensitiveKeys \cup {ToLower(key)}
    /\ call' = [op |-> "AddSensitiveKey", recv |-> Nil, in |-> <<key>>, out |-> << >>]
    /\ handed' = NoEntry
    /\ UNCHANGED <<mp, onceM, conc, held, process, once, firstInit, defaultLogger, loggers, arrays, engines>>

RemoveSensitiveKey(key) ==
    /\ sensitiveKeys' = sensitiveKeys \ {ToLower(key)}
    /\ call' = [op |-> "RemoveSensitiveKey", recv |-> Nil, in |-> <<key>>, out |-> << >>]
    /\ handed' = NoEntry
    /\ UNCHANGED <<mp, onceM, conc, held, process, once, firstInit, defaultLogger, loggers, arrays, engines>>

NewCall(config, canOpen) ==
    LET r == New(config, canOpen)
    IN  /\ Len(r.loggers) <= MaxLoggers
        /\ loggers' = r.loggers
        /\ engines' = r.engines
        /\ call' = [op |-> "New", recv |-> Nil, in |-> <<config, canOpen>>,
                    out |-> <<r.logger, r.err, r.panic>>]
        /\ handed' = NoEntry
        /\ process' = IF r.panic THEN Panicking ELSE Running
        /\ UNCHANGED <<mp, onceM, changedAt, conc, held, sensitiveKeys, once, firstInit, defaultLogger, arrays>>

WithCall(l, fields) ==
    LET r == LoggerWith(l, fields)
    IN  /\ Len(r.loggers) <= MaxLoggers
        /\ loggers[l].fields.len + Len(fields) <= MaxSticky
        /\ loggers' = r.loggers
        /\ arrays' = r.arrays
        /\ call' = [op |-> "With", recv |-> l, in |-> <<fields>>, out |-> <<r.logger>>]
        /\ handed' = NoEntry
        /\ UNCHANGED <<mp, onceM, changedAt, conc, held, process, sensitiveKeys, once, firstInit, defaultLogger, engines>>

LogCall(l, method, fields) ==
    LET r == LoggerLog(l, method, Msg, fields)
    IN  /\ handed' = r.entry
        /\ arrays' = r.arrays
        /\ call' = [op |-> method, recv |-> l, in |-> <<Msg, fields>>, out |-> << >>]
        /\ UNCHANGED <<mp, onceM, changedAt, conc, held, process, sensitiveKeys, once, firstInit, defaultLogger, loggers, engines>>

LogfCall(l, method, format, args) ==
    LET r == LoggerLogf(l, method, format, args)
    IN  /\ handed' = r.entry
        /\ arrays' = r.arrays
        /\ call' = [op |-> method \o "f", recv |-> l, in |-> <<format, args>>, out |-> << >>]
        /\ UNCHANGED <<mp, onceM, changedAt, conc, held, process, sensitiveKeys, once, firstInit, defaultLogger, loggers, engines>>

\* no call is under way: the caller is free to make one
Idle == call = NoCall

\* the call returns, or a deferred recover stops its panic, and the caller
\* goes on; nothing goes on in a process that has exited
Return ==
    /\ call # NoCall
    /\ process.state # "exited"
    /\ call' = NoCall
    /\ handed' = NoEntry
    /\ process' = Running
    /\ UNCHANGED <<mp, onceM, changedAt, conc, held, sensitiveKeys, once, firstInit, defaultLogger, loggers, arrays, engines>>

\* a caller of Logger values: construction, derivation, leveled calls
Next ==
    \/ Idle /\ \E key \in PinKeys : AddSensitiveKey(key) /\ UNCHANGED changedAt
    \/ Idle /\ \E key \in PinKeys : RemoveSensitiveKey(key) /\ UNCHANGED changedAt
    \/ Idle /\ \E canOpen \in BOOLEAN : NewCall(FileConfig, canOpen)
    \/ Idle /\ \E l \in DOMAIN loggers, fields \in FieldSeqs : WithCall(l, fields)
    \/ Idle /\ \E l \in DOMAIN loggers, method \in Methods, fields \in FieldSeqs :
          LogCall(l, method, fields)
    \/ Return

Spec == Init /\ [][Next]_vars

\* a caller of Logger values that logs through the formatted methods
NextFmt ==
    \/ Idle /\ \E key \in PinKeys : AddSensitiveKey(key) /\ UNCHANGED changedAt
    \/ Idle /\ \E key \in PinKeys : RemoveSensitiveKey(key) /\ UNCHANGED changedAt
    \/ Idle /\ \E canOpen \in BOOLEAN : NewCall(FileConfig, canOpen)
    \/ Idle /\ \E l \in DOMAIN loggers, fields \in FieldSeqs : WithCall(l, fields)
    \/ Idle /\ \E l \in DOMAIN loggers, method \in Methods, format \in Formats, args \in ArgSeqs :
          LogfCall(l, method, format, args)
    \/ Return

SpecFmt == Init /\ [][NextFmt]_vars


(***************************************************************************)
(* Properties of the Logger (Spec, SpecFmt).                               *)
(***************************************************************************)
FormattedMethods == {"Tracef", "Debugf", "Infof", "Warnf", "Errorf"}

\* out is src, in order, each value replaced by its masked form
MaskedAs(out, src) ==
    /\ Len(out) = Len(src)
    /\ \A i \in 1..Len(src) :
          /\ out[i].Key = src[i].Key
          /\ out[i].Value = maskSensitiveData(src[i].Key, src[i].Value)

\* t occurs in s as a contiguous run
Occurs(t, s) == \E i \in 0..(Len(s) - Len(t)) : SubSeq(s, i + 1, i + Len(t)) = t

\* C2: a leveled call hands the engine the sticky fields in order, then the
\* call-site fields in order, every value masked by its key; nothing is
\* dropped, reordered or de-duplicated.
C2_LeveledCallFields ==
    call.op \in Methods =>
        /\ handed.engine = loggers[call.recv].zapLogger
        /\ handed.level = ZapMethodOf(call.op)
        /\ handed.msg = call.in[1]
        /\ MaskedAs(handed.fields, Sticky(call.recv) \o call.in[2])

\* a call whose call-site fields repeat a sticky key, with a masked value
C2_Witness ==
    /\ call.op \in Methods
    /\ Len(Sticky(call.recv)) = 2
    /\ Len(call.in[2]) = 2
    /\ call.in[2][1] # call.in[2][2]
    /\ \E i \in 1..2 : Sticky(call.recv)[i].Key = call.in[2][2].Key
    /\ Len(handed.fields) = 4
    /\ \E i \in 1..4 : handed.fields[i].Value = StringValue(<<"1", "2", "*", "*", "*", "4", "5">>)
    /\ \E i \in 1..4 : handed.fields[i].Value = [kind |-> "int", val |-> <<"7">>]

\* C5: a formatted call hands the engine the formatted template as message
\* and exactly the masked sticky fields; the operands are not masked, each
\* text operand stands in the message as it was given.
C5_FormattedCall ==
    call.op \in FormattedMethods =>
        /\ handed.engine = loggers[call.recv].zapLogger
        /\ \E m \in Methods : call.op = m \o "f" /\ handed.level = ZapMethodOf(m)
        /\ handed.msg = Sprintf(call.in[1], call.in[2])
        /\ MaskedAs(handed.fields, Sticky(call.recv))
        /\ \A i \in 1..Len(call.in[2]) :
              call.in[2][i].kind = "string" => Occurs(call.in[2][i].val, handed.msg)

\* a formatted call whose operand would be masked as the value of a sticky
\* field of the same Logger, and is masked there
C5_Witness ==
    /\ call.op \in FormattedMethods
    /\ call.in[1] = <<"u", "=", "%s">>
    /\ call.in[2] = <<StringValue(Secret)>>
    /\ handed.msg = <<"u", "=">> \o Secret
    /\ Len(handed.fields) >= 1
    /\ \E i \in 1..Len(handed.fields) :
          /\ Sticky(call.recv)[i] = PinField
          /\ handed.fields[i].Value = StringValue(<<"1", "2", "*", "*", "*", "4", "5">>)

\* C6: With does not touch the Logger it is called on nor any other Logger:
\* every step leaves every existing Logger and its sticky fields as they
\* were, and a leveled call hands over the fields its Logger had before.
C6_WithNonMutating ==
    [][ /\ \A q \in DOMAIN loggers :
              /\ q \in DOMAIN loggers'
              /\ loggers'[q] = loggers[q]
              /\ Elems(arrays', loggers'[q].fields) = Sticky(q)
        /\ (call'.op \in Methods /\ call.op = "none") =>
              MaskedAs(handed'.fields, Sticky(call'.recv) \o call'.in[2])
      ]_vars

\* the parent logs after two children were derived from it with different fields
C6_Witness ==
    /\ call.op \in Methods
    /\ call.recv = 1
    /\ Len(loggers) = 3
    /\ Sticky(1) = << >>
    /\ Sticky(2) = <<PinField>>
    /\ Sticky(3) = <<IdField>>
    /\ call.in[2] = << >>
    /\ handed.fields = << >>

\* C7: With returns a new Logger on the receiver's engine whose sticky
\* fields are the receiver's followed by the given ones, in order.
C7_WithConcatenates ==
    call.op = "With" =>
        /\ call.out[1] = Len(loggers)
        /\ call.out[1] # call.recv
        /\ loggers[call.out[1]].zapLogger = loggers[call.recv].zapLogger
        /\ Sticky(call.out[1]) = Sticky(call.recv) \o call.in[1]

\* a grandchild that carries its parent's field and then its own
C7_Witness ==
    /\ call.op = "With"
    /\ call.recv = 2
    /\ call.out[1] = 3
    /\ Sticky(1) = << >>
    /\ loggers[3].zapLogger = loggers[1].zapLogger
    /\ Sticky(call.recv) = <<IdField>>
    /\ call.in[1] = <<PinField>>
    /\ Sticky(call.out[1]) = <<IdField, PinField>>


(***************************************************************************)
(* The masker on its own (SpecMask): any key, any value, any registry the  *)
(* callers can reach by adding and removing keys.                          *)
(***************************************************************************)
MaskCall(key, value) ==
    /\ call' = [op |-> "maskSensitiveData", recv |-> Nil, in |-> <<key, value>>,
                out |-> <<maskSensitiveData(key, value)>>]
    /\ handed' = NoEntry
    /\ UNCHANGED <<mp, onceM, changedAt, conc, held, process, sensitiveKeys, once, firstInit, defaultLogger, loggers, arrays, engines>>

NextMask ==
    \/ Idle /\ \E key \in Keys : AddSensitiveKey(key) /\ UNCHANGED changedAt
    \/ Idle /\ \E key \in Keys : RemoveSensitiveKey(key) /\ UNCHANGED changedAt
    \/ Idle /\ \E key \in Keys, value \in MaskValues : MaskCall(key, value)
    \/ Return

SpecMask == Init /\ [][NextMask]_vars

\* C1: under a key that is not sensitive in the current registry the masker
\* returns the value it was given, with the type it had.
C1_NonSensitiveIdentity ==
    (call.op = "maskSensitiveData" /\ ~isSensitiveKey(call.in[1])) =>
        /\ call.out[1] = call.in[2]
        /\ call.out[1].kind = call.in[2].kind

\* a byte sequence under a built-in key that was removed through another case
C1_Witness ==
    /\ call.op = "maskSensitiveData"
    /\ call.in[1] = <<"P","I","N">>
    /\ <<"p","i","n">> \notin sensitiveKeys
    /\ call.in[2] = BytesValue(<<"a", "C3", "A9">>)
    /\ call.out[1] = BytesValue(<<"a", "C3", "A9">>)

C4_OtherTypesSentinel ==
    (call.op = "maskSensitiveData" /\ isSensitiveKey(call.in[1])
        /\ call.in[2].kind \notin {"string", "[]byte"}) =>
        call.out[1] = [kind |-> "string",
                       val |-> <<"*","*","*","M","A","S","K","E","D","*","*","*">>]

\* a nil value under a custom key added through another case
C4_Witness ==
    /\ call.op = "maskSensitiveData"
    /\ call.in[1] = <<"I","d">>
    /\ <<"i","d">> \in sensitiveKeys
    /\ call.in[2].kind = "nil"
    /\ call.out[1].kind = "string"
    /\ Len(call.out[1].val) = 12


(***************************************************************************)
(* logx.go: the default logger (SpecInit).                                 *)
(***************************************************************************)
\* Init that builds a Logger on every call
InitEveryTime(config, canOpen) ==
    LET r == New(config, canOpen)
    IN  [ran |-> TRUE, once |-> TRUE,
         defaultLogger |-> IF r.panic THEN defaultLogger ELSE r.logger,
         loggers |-> r.loggers, engines |-> r.engines,
         err |-> r.err, panic |-> r.panic]

\* Init that tries again while the slot is empty
InitRetryOnEmpty(config, canOpen) ==
    IF defaultLogger # Nil
    THEN [ran |-> FALSE, once |-> once, defaultLogger |-> defaultLogger,
          loggers |-> loggers, engines |-> engines, err |-> NoError, panic |-> FALSE]
    ELSE LET r == New(config, canOpen)
         IN  [ran |-> TRUE, once |-> TRUE,
              defaultLogger |-> IF r.panic THEN defaultLogger ELSE r.logger,
              loggers |-> r.loggers, engines |-> r.engines,
              err |-> r.err, panic |-> r.panic]

\* Init whose Once stays open when the function panics
InitOnceOpenAfterPanic(config, canOpen) ==
    IF once
    THEN [ran |-> FALSE, once |-> once, defaultLogger |-> defaultLogger,
          loggers |-> loggers, engines |-> engines, err |-> NoError, panic |-> FALSE]
    ELSE LET r == New(config, canOpen)
         IN  [ran |-> TRUE, once |-> ~r.panic,
              defaultLogger |-> IF r.panic THEN defaultLogger ELSE r.logger,
              loggers |-> r.loggers, engines |-> r.engines,
              err |-> r.err, panic |-> r.panic]

\* Init: var err error; once.Do(func() { defaultLogger, err = New(config) }); return err
\* (sync.Once marks itself done also when the function panics)
InitOnce(config, canOpen) ==
    IF once
    THEN [ran |-> FALSE, once |-> once, defaultLogger |-> defaultLogger,
          loggers |-> loggers, engines |-> engines, err |-> NoError, panic |-> FALSE]
    ELSE LET r == New(config, canOpen)
         IN  [ran |-> TRUE, once |-> TRUE,
              defaultLogger |-> IF r.panic THEN defaultLogger ELSE r.logger,
              loggers |-> r.loggers, engines |-> r.engines,
              err |-> r.err, panic |-> r.panic]

InitCall(config, canOpen) ==
    LET r == InitOnce(config, canOpen)
    IN  /\ once' = r.once
        /\ defaultLogger' = r.defaultLogger
        /\ loggers' = r.loggers
        /\ engines' = r.engines
        /\ firstInit' = IF firstInit.made THEN firstInit
                        ELSE [made |-> TRUE, err |-> r.err, panic |-> r.panic]
        /\ call' = [op |-> "Init", recv |-> Nil, in |-> <<config, canOpen>>,
                    out |-> <<r.err, r.panic>>]
        /\ handed' = NoEntry
        /\ process' = IF r.panic THEN Panicking ELSE Running
        /\ UNCHANGED <<mp, onceM, changedAt, conc, held, sensitiveKeys, arrays>>

\* a package-level function that calls the method whatever the slot holds:
\* on a nil *Logger the method dereferences nil
PkgLogNoGuard(method, fields) ==
    IF defaultLogger # Nil
    THEN LET r == LoggerLog(defaultLogger, method, Msg, fields)
         IN  [entry |-> r.entry, arrays |-> r.arrays, panic |-> FALSE]
    ELSE [entry |-> NoEntry, arrays |-> arrays, panic |-> TRUE]

\* the package-level Trace, Debug, Info, Warn, Error:
\* if defaultLogger != nil { defaultLogger.<Method>(msg, fields...) }
PkgLog(method, fields) ==
    IF defaultLogger # Nil
    THEN LET r == LoggerLog(defaultLogger, method, Msg, fields)
         IN  [entry |-> r.entry, arrays |-> r.arrays, panic |-> FALSE]
    ELSE [entry |-> NoEntry, arrays |-> arrays, panic |-> FALSE]

\* the package-level Tracef, Debugf:
\* if defaultLogger != nil { defaultLogger.<Method>f(format, args...) }
PkgLogf(method, format, args) ==
    IF defaultLogger # Nil
    THEN LET r == LoggerLogf(defaultLogger, method, format, args)
         IN  [entry |-> r.entry, arrays |-> r.arrays, panic |-> FALSE]
    ELSE [entry |-> NoEntry, arrays |-> arrays, panic |-> FALSE]

\* zapcore.Level.Enabled: an engine writes the entries at or above its level
ZapEnabled(engine, level) == level >= engines[engine].level

\* the entry the engine writes to its output, NoEntry when it writes none
Emitted == IF handed # NoEntry /\ ZapEnabled(handed.engine, handed.level) THEN handed ELSE NoEntry

\* a package-level Fatal that, like the other functions, does nothing while
\* the slot is empty
PkgFatalReturnsWhenEmpty(fields) ==
    IF defaultLogger # Nil
    THEN LET r == LoggerLog(defaultLogger, "Fatal", Msg, fields)
         IN  [entry |-> r.entry, arrays |-> r.arrays, process |-> Exited(1)]
    ELSE [entry |-> NoEntry, arrays |-> arrays, process |-> Running]

\* the package-level Fatal:
\* if defaultLogger != nil { defaultLogger.Fatal(msg, fields...) } else { os.Exit(1) }
\* (zap's Fatal writes the entry and then calls os.Exit(1))
PkgFatal(fields) ==
    IF defaultLogger # Nil
    THEN LET r == LoggerLog(defaultLogger, "Fatal", Msg, fields)
         IN  [entry |-> r.entry, arrays |-> r.arrays, process |-> Exited(1)]
    ELSE [entry |-> NoEntry, arrays |-> arrays, process |-> Exited(1)]

PkgFatalCall(fields) ==
    LET r == PkgFatal(fields)
    IN  /\ handed' = r.entry
        /\ arrays' = r.arrays
        /\ process' = r.process
        /\ call' = [op |-> "logx.Fatal", recv |-> defaultLogger, in |-> <<Msg, fields>>,
                    out |-> << >>]
        /\ UNCHANGED <<mp, onceM, changedAt, conc, held, sensitiveKeys, once, firstInit, defaultLogger, loggers, engines>>

PkgLogCall(method, fields) ==
    LET r == PkgLog(method, fields)
    IN  /\ handed' = r.entry
        /\ arrays' = r.arrays
        /\ process' = IF r.panic THEN Panicking ELSE Running
        /\ call' = [op |-> "logx." \o method, recv |-> defaultLogger, in |-> <<Msg, fields>>,
                    out |-> << >>]
        /\ UNCHANGED <<mp, onceM, changedAt, conc, held, sensitiveKeys, once, firstInit, defaultLogger, loggers, engines>>

PkgLogfCall(method, format, args) ==
    LET r == PkgLogf(method, format, args)
    IN  /\ handed' = r.entry
        /\ arrays' = r.arrays
        /\ process' = IF r.panic THEN Panicking ELSE Running
        /\ call' = [op |-> "logx." \o method \o "f", recv |-> defaultLogger,
                    in |-> <<format, args>>, out |-> << >>]
        /\ UNCHANGED <<mp, onceM, changedAt, conc, held, sensitiveKeys, once, firstInit, defaultLogger, loggers, engines>>

InitConfigs == {DefaultConfig, FileConfig, DevConfig, NilConfig}
PkgMethods == {"logx." \o m : m \in Methods}
PkgFormattedMethods == {"logx.Tracef", "logx.Debugf"}

NextInit ==
    \/ Idle /\ \E key \in PinKeys : AddSensitiveKey(key) /\ UNCHANGED changedAt
    \/ Idle /\ \E key \in PinKeys : RemoveSensitiveKey(key) /\ UNCHANGED changedAt
    \/ Idle /\ \E config \in InitConfigs, canOpen \in BOOLEAN : InitCall(config, canOpen)
    \/ Idle /\ \E method \in Methods, fields \in FieldSeqs : PkgLogCall(method, fields)
    \/ Idle /\ \E method \in {"Trace", "Debug"}, format \in Formats, args \in ArgSeqs :
          PkgLogfCall(method, format, args)
    \/ Idle /\ \E fields \in FieldSeqs : PkgFatalCall(fields)
    \/ Return

SpecInit == Init /\ [][NextInit]_vars

\* C8: once an Init call has built the default Logger, a later Init call,
\* whatever its configuration, builds nothing and leaves that Logger, with
\* the engine of the first configuration, in the slot.
C8_InitOneShot ==
    [][ (defaultLogger # Nil /\ call'.op = "Init" /\ Idle) =>
            /\ defaultLogger' = defaultLogger
            /\ loggers' = loggers
            /\ engines' = engines
      ]_vars

\* a second Init, with a file configuration, after the default configuration
\* built the Logger
C8_Witness ==
    /\ call.op = "Init"
    /\ call.in[1] = FileConfig
    /\ defaultLogger = 1
    /\ Len(loggers) = 1
    /\ Len(engines) = 1
    /\ engines[1].output = "stdout"
    /\ engines[1].level = ZapInfo

\* C9 as claimed: an Init call after the first returns what the first
\* attempt returned, nil after a success and the construction error after
\* a failure.
C9_LaterInitReturnsFirstError ==
    [][ (firstInit.made /\ call'.op = "Init" /\ Idle) => call'.out[1] = firstInit.err ]_vars

\* C10: after a first Init attempt that returned an error the slot is empty
\* ever after: a later Init, also with a valid configuration, builds
\* nothing, and the package-level functions hand nothing to any engine.
C10_FailedInitStaysEmpty ==
    [][ (firstInit.made /\ firstInit.err # NoError) =>
            /\ defaultLogger = Nil
            /\ defaultLogger' = Nil
            /\ loggers' = loggers
            /\ call'.op \in PkgMethods => handed' = NoEntry
      ]_vars

\* after a failed first attempt, a later Init with the default configuration
C10_Witness ==
    /\ firstInit.made
    /\ firstInit.err = OpenFileError
    /\ call.op = "Init"
    /\ call.in[1] = DefaultConfig
    /\ call.out = <<NoError, FALSE>>
    /\ defaultLogger = Nil
    /\ loggers = << >>

\* C11: while the slot is empty, a package-level Trace, Tracef, Debug, Debugf,
\* Info, Warn or Error hands nothing to any engine, does not panic, does not
\* end the process, and leaves the slot and the registry as they were.
C11_EmptySlotNoOp ==
    [][ (Idle /\ defaultLogger = Nil /\ call'.op \in PkgMethods \cup PkgFormattedMethods) =>
            /\ handed' = NoEntry
            /\ process' = Running
            /\ defaultLogger' = Nil
            /\ sensitiveKeys' = sensitiveKeys
      ]_vars

\* a package-level Tracef after a failed Init left the slot empty
C11_Witness ==
    /\ call.op = "logx.Tracef"
    /\ firstInit.made
    /\ defaultLogger = Nil
    /\ handed = NoEntry
    /\ process = Running

\* C12: a package-level Fatal always ends the process with a non-zero
\* status; with a Logger in the slot the entry, its fields masked, is written
\* first; with an empty slot nothing is written; and no step follows the
\* exit, so control never returns to the caller.
C12_FatalTerminates ==
    [][ /\ process.state # "exited"
        /\ (Idle /\ call'.op = "logx.Fatal") =>
              /\ process'.state = "exited"
              /\ process'.status # 0
              /\ defaultLogger # Nil =>
                    /\ Emitted' # NoEntry
                    /\ Emitted'.engine = loggers[defaultLogger].zapLogger
                    /\ Emitted'.msg = call'.in[1]
                    /\ MaskedAs(Emitted'.fields, Sticky(defaultLogger) \o call'.in[2])
              /\ defaultLogger = Nil => handed' = NoEntry
      ]_vars

\* a Fatal with a sensitive field, through the default Logger: the process
\* has exited with status 1 and the entry written shows the masked value
C12_Witness ==
    /\ call.op = "logx.Fatal"
    /\ defaultLogger # Nil
    /\ call.in[2] = <<PinField>>
    /\ isSensitiveKey(PinField.Key)
    /\ Emitted.fields = <<[Key |-> PinField.Key, Value |-> StringValue(maskString(Secret))]>>
    /\ process = Exited(1)


(***************************************************************************)
(* Methods called through a *Logger variable that may be nil (SpecRef).    *)
(***************************************************************************)
LoggerMethodOps == Methods \cup FormattedMethods \cup {"Fatal", "Fatalf", "With", "Sync"}

\* the leveled method a formatted method ends in
LeveledOf(op) ==
    CASE op = "Tracef" -> "Trace"
      [] op = "Debugf" -> "Debug"
      [] op = "Infof" -> "Info"
      [] op = "Warnf" -> "Warn"
      [] op = "Errorf" -> "Error"
      [] op = "Fatalf" -> "Fatal"

\* what the output's Sync may answer
SyncErrors == {NoError, "sync: invalid argument"}

\* the arguments each method is called with
InputsOf(op) ==
    CASE op = "With" -> {<<fields>> : fields \in FieldSeqs}
      [] op = "Sync" -> {<<err>> : err \in SyncErrors}
      [] op \in Methods \cup {"Fatal"} -> {<<Msg, fields>> : fields \in FieldSeqs}
      [] OTHER -> {<<format, args>> : format \in Formats, args \in ArgSeqs}

\* a method on a Logger that exists
LoggerMethodOn(l, op, in) ==
    CASE op = "With" ->
            LET r == LoggerWith(l, in[1])
            IN  [entry |-> NoEntry, arrays |-> r.arrays, loggers |-> r.loggers,
                 out |-> <<r.logger>>, process |-> Running]
      [] op = "Sync" ->
            [entry |-> NoEntry, arrays |-> arrays, loggers |-> loggers,
             out |-> <<in[1]>>, process |-> Running]
      [] op \in Methods \cup {"Fatal"} ->
            LET r == LoggerLog(l, op, in[1], in[2])
            IN  [entry |-> r.entry, arrays |-> r.arrays, loggers |-> loggers,
                 out |-> << >>, process |-> IF op = "Fatal" THEN Exited(1) ELSE Running]
      [] OTHER ->
            LET r == LoggerLogf(l, LeveledOf(op), in[1], in[2])
            IN  [entry |-> r.entry, arrays |-> r.arrays, loggers |-> loggers,
                 out |-> << >>, process |-> IF op = "Fatalf" THEN Exited(1) ELSE Running]

\* methods that begin with `if l == nil { return }`
LoggerMethodNilSafe(l, op, in) ==
    IF l = Nil
    THEN [entry |-> NoEntry, arrays |-> arrays, loggers |-> loggers,
          out |-> IF op = "With" THEN <<Nil>> ELSE IF op = "Sync" THEN <<NoError>> ELSE << >>,
          process |-> Running]
    ELSE LoggerMethodOn(l, op, in)

\* a method through the reference l: every method reads l.fields or
\* l.zapLogger before anything else, a nil pointer dereference when l is nil
LoggerMethod(l, op, in) ==
    IF l = Nil
    THEN [entry |-> NoEntry, arrays |-> arrays, loggers |-> loggers,
          out |-> << >>, process |-> Panicking]
    ELSE LoggerMethodOn(l, op, in)

\* held.<op>(in...); the result of With is assigned to held
HeldCall(op, in) ==
    LET r == LoggerMethod(held, op, in)
    IN  /\ Len(r.loggers) <= MaxLoggers
        /\ (op = "With" /\ held # Nil) => loggers[held].fields.len + Len(in[1]) <= MaxSticky
        /\ handed' = r.entry
        /\ arrays' = r.arrays
        /\ loggers' = r.loggers
        /\ process' = r.process
        /\ held' = IF op = "With" /\ r.process = Running THEN r.out[1] ELSE held
        /\ call' = [op |-> op, recv |-> held, in |-> in, out |-> r.out]
        /\ UNCHANGED <<mp, onceM, changedAt, conc, sensitiveKeys, once, firstInit, defaultLogger, engines>>

\* the package-level With:
\* if defaultLogger != nil { return defaultLogger.With(fields...) }; return nil
PkgWith(fields) ==
    IF defaultLogger # Nil
    THEN LoggerWith(defaultLogger, fields)
    ELSE [logger |-> Nil, loggers |-> loggers, arrays |-> arrays]

\* held = logx.With(fields...)
PkgWithCall(fields) ==
    LET r == PkgWith(fields)
    IN  /\ Len(r.loggers) <= MaxLoggers
        /\ held' = r.logger
        /\ loggers' = r.loggers
        /\ arrays' = r.arrays
        /\ handed' = NoEntry
        /\ call' = [op |-> "logx.With", recv |-> defaultLogger, in |-> <<fields>>,
                    out |-> <<r.logger>>]
        /\ UNCHANGED <<mp, onceM, changedAt, conc, process, sensitiveKeys, once, firstInit, defaultLogger, engines>>

NextRef ==
    \/ Idle /\ \E config \in {DefaultConfig, FileConfig}, canOpen \in BOOLEAN :
          InitCall(config, canOpen)
    \/ Idle /\ \E fields \in FieldSeqs : PkgWithCall(fields)
    \/ Idle /\ \E op \in LoggerMethodOps : \E in \in InputsOf(op) : HeldCall(op, in)
    \/ Return

SpecRef == Init /\ [][NextRef]_vars

RegKeys ==
    Keys \cup { <<"u","i","d">>, <<"U","I","D">>, <<"u","I","d">>,
                <<"a","p","i","_","k","e","y">>, <<"A","P","I","_","K","E","Y">> }

IsSensitiveKeyCall(key) ==
    /\ call' = [op |-> "isSensitiveKey", recv |-> Nil, in |-> <<key>>,
                out |-> <<isSensitiveKey(key)>>]
    /\ handed' = NoEntry
    /\ UNCHANGED <<mp, onceM, changedAt, conc, held, process, sensitiveKeys, once, firstInit, defaultLogger, loggers, arrays,
                   engines>>

NextReg ==
    \/ \E key \in RegKeys : AddSensitiveKey(key) /\ UNCHANGED changedAt
    \/ \E key \in RegKeys : RemoveSensitiveKey(key) /\ UNCHANGED changedAt
    \/ \E key \in RegKeys : IsSensitiveKeyCall(key)

SpecReg == Init /\ [][NextReg]_vars

\* C14: when AddSensitiveKey(k) has returned k is sensitive, when
\* RemoveSensitiveKey(k) has returned k is not, whether k was built in,
\* added before or absent; and the same add or the same remove made again
\* right after leaves the registry as the first one left it.
C14_AddRemoveIdempotent ==
    [][ /\ call.op = "AddSensitiveKey" => isSensitiveKey(call.in[1])
        /\ call.op = "RemoveSensitiveKey" => ~isSensitiveKey(call.in[1])
        /\ (call.op \in {"AddSensitiveKey", "RemoveSensitiveKey"}
                /\ call'.op = call.op /\ call'.in = call.in) =>
              sensitiveKeys' = sensitiveKeys
      ]_vars

\* a remove of a custom key that was never added: the registry is the
\* built-in one still
C14_Witness ==
    /\ call.op = "RemoveSensitiveKey"
    /\ call.in[1] = <<"U","I","D">>
    /\ sensitiveKeys = BuiltinSensitiveKeys
    /\ ~isSensitiveKey(<<"U","I","D">>)

\* a and b are the same key up to the case of its letters
CaseVariants(a, b) ==
    /\ Len(a) = Len(b)
    /\ \A i \in 1..Len(a) :
          \/ a[i] = b[i]
          \/ \E j \in 1..26 : {a[i], b[i]} = {UpperCase[j], LowerCase[j]}

\* C15: in every registry state the lookup answers alike for all case
\* variants of a key, and after an add (a remove) made through one variant
\* every variant is sensitive (is not sensitive).
C15_CaseInsensitive ==
    /\ \A a, b \in RegKeys : CaseVariants(a, b) => (isSensitiveKey(a) = isSensitiveKey(b))
    /\ call.op = "AddSensitiveKey" =>
          \A b \in RegKeys : CaseVariants(call.in[1], b) => isSensitiveKey(b)
    /\ call.op = "RemoveSensitiveKey" =>
          \A b \in RegKeys : CaseVariants(call.in[1], b) => ~isSensitiveKey(b)
    /\ call.op = "isSensitiveKey" =>
          \A b \in RegKeys : CaseVariants(call.in[1], b) => (call.out[1] = isSensitiveKey(b))

\* a built-in key removed through its upper-case form: the lower-case form
\* is no longer sensitive
C15_Witness ==
    /\ call.op = "RemoveSensitiveKey"
    /\ call.in[1] = <<"A","P","I","_","K","E","Y">>
    /\ ~isSensitiveKey(<<"a","p","i","_","k","e","y">>)
    /\ isSensitiveKey(<<"u","I","d">>)


(***************************************************************************)
(* The registry under concurrent callers (SpecConc).  Each call is the     *)
(* steps of its code: take sensitiveKeysMu, touch the map, and release on  *)
(* return (the deferred Unlock / RUnlock).                                 *)
(***************************************************************************)
ConcKeys == { <<"p","i","n">>, <<"I","d">> }
RegistryOps == {"AddSensitiveKey", "RemoveSensitiveKey", "isSensitiveKey"}
Writers == {"AddSensitiveKey", "RemoveSensitiveKey"}

\* a Lock that waits for the writer only
CanLockAmongReaders == sensitiveKeysMu.writer = Nil

\* sync.RWMutex: Lock waits until no one holds the mutex, RLock until no
\* writer holds it
CanLock == sensitiveKeysMu.writer = Nil /\ sensitiveKeysMu.readers = {}
CanRLock == sensitiveKeysMu.writer = Nil

\* some goroutine other than g is in a remove of key
RemoveUnderWay(g, key) ==
    \E h \in Goroutines \ {g} :
        /\ goroutines[h].op = "RemoveSensitiveKey"
        /\ ToLower(goroutines[h].key) = ToLower(key)

\* goroutine g calls op(key).  History: a lookup that begins when key is
\* settled is expected to answer true; a remove that begins unsettles its
\* key and the lookups of it that are under way.
Begin(g, op, key) ==
    /\ goroutines[g].pc = "idle"
    /\ goroutines' =
          [h \in Goroutines |->
              IF h = g
              THEN [IdleGoroutine EXCEPT
                       !.pc = "lock", !.op = op, !.key = key,
                       !.expect = op = "isSensitiveKey" /\ ToLower(key) \in settled]
              ELSE IF op = "RemoveSensitiveKey" /\ ToLower(goroutines[h].key) = ToLower(key)
              THEN [goroutines[h] EXCEPT !.expect = FALSE]
              ELSE goroutines[h]]
    /\ settled' = IF op = "RemoveSensitiveKey" THEN settled \ {ToLower(key)} ELSE settled
    /\ UNCHANGED <<mp, sensitiveKeysMu, sensitiveKeys, once, firstInit, defaultLogger, loggers,
                   arrays, engines, call, handed, process, held, changedAt, onceM>>

\* sensitiveKeysMu.Lock() or sensitiveKeysMu.RLock() goes through
Acquire(g) ==
    /\ goroutines[g].pc = "lock"
    /\ IF goroutines[g].op \in Writers
       THEN CanLock /\ sensitiveKeysMu' = [sensitiveKeysMu EXCEPT !.writer = g]
       ELSE CanRLock /\ sensitiveKeysMu' = [sensitiveKeysMu EXCEPT !.readers = @ \cup {g}]
    /\ goroutines' = [goroutines EXCEPT ![g].pc = "locked"]
    /\ UNCHANGED <<mp, settled, sensitiveKeys, once, firstInit, defaultLogger, loggers,
                   arrays, engines, call, handed, process, held, changedAt, onceM>>

\* the map statement of the call
Access(g) ==
    /\ goroutines[g].pc = "locked"
    /\ sensitiveKeys' =
          CASE goroutines[g].op = "AddSensitiveKey" ->
                  sensitiveKeys \cup {ToLower(goroutines[g].key)}
            [] goroutines[g].op = "RemoveSensitiveKey" ->
                  sensitiveKeys \ {ToLower(goroutines[g].key)}
            [] OTHER -> sensitiveKeys
    /\ goroutines' = [goroutines EXCEPT
                         ![g].pc = "unlock",
                         ![g].result = IF goroutines[g].op = "isSensitiveKey"
                                       THEN isSensitiveKey(goroutines[g].key) ELSE FALSE]
    /\ UNCHANGED <<mp, sensitiveKeysMu, settled, once, firstInit, defaultLogger, loggers,
                   arrays, engines, call, handed, process, held, changedAt, onceM>>

\* the deferred Unlock or RUnlock runs and the call returns.  History: the
\* key of an add is settled when no remove of it is under way.
Release(g) ==
    /\ goroutines[g].pc = "unlock"
    /\ sensitiveKeysMu' =
          IF goroutines[g].op \in Writers
          THEN [sensitiveKeysMu EXCEPT !.writer = Nil]
          ELSE [sensitiveKeysMu EXCEPT !.readers = @ \ {g}]
    /\ settled' =
          IF goroutines[g].op = "AddSensitiveKey" /\ ~RemoveUnderWay(g, goroutines[g].key)
          THEN settled \cup {ToLower(goroutines[g].key)}
          ELSE settled
    /\ goroutines' = [goroutines EXCEPT ![g] = IdleGoroutine]
    /\ UNCHANGED <<mp, sensitiveKeys, once, firstInit, defaultLogger, loggers,
                   arrays, engines, call, handed, process, held, changedAt, onceM>>

NextConc ==
    \/ \E g \in Goroutines, op \in RegistryOps, key \in ConcKeys : Begin(g, op, key)
    \/ \E g \in Goroutines : Acquire(g)
    \/ \E g \in Goroutines : Access(g)
    \/ \E g \in Goroutines : Release(g)

SpecConc == Init /\ [][NextConc]_vars

\* goroutine g is between taking and releasing the mutex
InCritical(g) == goroutines[g].pc \in {"locked", "unlock"}

\* C16: in every interleaving a writer is alone between Lock and Unlock
\* (no other writer, no reader); a key whose add has returned, with no
\* remove of it begun since, is in the registry (no add is lost); and a
\* lookup that began in that situation, with no remove of its key begun
\* while it ran, answers true.
C16_RegistryLinearizable ==
    /\ \A g, h \in Goroutines :
          (g # h /\ InCritical(g) /\ InCritical(h)) =>
              (goroutines[g].op \notin Writers /\ goroutines[h].op \notin Writers)
    /\ settled \subseteq sensitiveKeys
    /\ \A g \in Goroutines :
          (goroutines[g].pc = "unlock" /\ goroutines[g].op = "isSensitiveKey"
              /\ goroutines[g].expect) => goroutines[g].result

\* a lookup of a custom key that began after its add returned has read
\* true, while another goroutine waits for the mutex to add
C16_Witness ==
    /\ goroutines[1].pc = "unlock"
    /\ goroutines[1].op = "isSensitiveKey"
    /\ goroutines[1].key = <<"I","d">>
    /\ goroutines[1].expect
    /\ goroutines[1].result
    /\ goroutines[2].pc = "lock"
    /\ goroutines[2].op = "AddSensitiveKey"
    /\ sensitiveKeysMu.readers = {1}


(***************************************************************************)
(* Loggers and a registry that changes under them (SpecEmit): the caller   *)
(* of Spec, with the history of when the registry last changed.            *)
(***************************************************************************)
\* the registry has changed: note how many Loggers there are
NoteChange == changedAt' = IF sensitiveKeys' # sensitiveKeys THEN Len(loggers) ELSE changedAt

\* the field lists given to With and to the leveled methods here
EmitFieldSeqs == { << >>, <<PinField>>, <<IdField, PinField>> }

NextEmit ==
    \/ Idle /\ \E key \in PinKeys : AddSensitiveKey(key) /\ NoteChange
    \/ Idle /\ \E key \in PinKeys : RemoveSensitiveKey(key) /\ NoteChange
    \/ Idle /\ \E canOpen \in BOOLEAN : NewCall(FileConfig, canOpen)
    \/ Idle /\ \E l \in DOMAIN loggers, fields \in EmitFieldSeqs : WithCall(l, fields)
    \/ Idle /\ \E l \in DOMAIN loggers, method \in {"Info", "Error"}, fields \in EmitFieldSeqs :
          LogCall(l, method, fields)
    \/ Return

SpecEmit == Init /\ [][NextEmit]_vars

\* what a field given as f shows in an entry under the registry of now
ShownNow(f) ==
    IF f = PinField
    THEN IF <<"p","i","n">> \in sensitiveKeys
         THEN StringValue(<<"1", "2", "*", "*", "*", "4", "5">>)
         ELSE StringValue(Secret)
    ELSE f.Value

\* C17: a Logger keeps its sticky fields as they were given, and every
\* leveled call shows each field, sticky or of the call, masked or not by
\* the registry of the moment of the call, whatever the registry was when
\* the field or the Logger was made.
C17_MaskedAtEmission ==
    /\ \A l \in DOMAIN loggers : \A i \in 1..Len(Sticky(l)) : Sticky(l)[i] \in {PinField, IdField}
    /\ call.op \in Methods =>
          LET src == Sticky(call.recv) \o call.in[2]
          IN  /\ Len(handed.fields) = Len(src)
              /\ \A i \in 1..Len(src) :
                    /\ handed.fields[i].Key = src[i].Key
                    /\ handed.fields[i].Value = ShownNow(src[i])

\* a call through a child Logger made before the registry last changed: its
\* sticky field shows masked, the key having been added after the Logger
\* was made
C17_Witness ==
    /\ call.op = "Info"
    /\ call.recv = 2
    /\ Sticky(2) = <<PinField>>
    /\ changedAt >= 2
    /\ <<"p","i","n">> \in sensitiveKeys
    /\ call.in[2] = << >>
    /\ handed.fields = <<[Key |-> PinField.Key,
                          Value |-> StringValue(<<"1", "2", "*", "*", "*", "4", "5">>)]>>


(***************************************************************************)
(* Loggers of every configured level (SpecLevel).                          *)
(***************************************************************************)
Levels == {TraceLevel, DebugLevel, InfoLevel, WarnLevel, ErrorLevel, FatalLevel}

\* DefaultConfig() with config.Level = level
LevelConfig(level) == [DefaultConfig EXCEPT !.Level = level]

\* the severity a method logs at, in the order of logx.Level
SeverityOf(op) ==
    CASE op \in {"Trace", "Tracef"} -> TraceLevel
      [] op \in {"Debug", "Debugf"} -> DebugLevel
      [] op \in {"Info", "Infof"} -> InfoLevel
      [] op \in {"Warn", "Warnf"} -> WarnLevel
      [] op \in {"Error", "Errorf"} -> ErrorLevel
      [] op \in {"Fatal", "Fatalf"} -> FatalLevel

NextLevel ==
    \/ Idle /\ \E level \in Levels : NewCall(LevelConfig(level), TRUE)
    \/ Idle /\ \E l \in DOMAIN loggers, method \in Methods, fields \in {<< >>, <<PinField>>} :
          LogCall(l, method, fields)
    \/ Idle /\ \E l \in DOMAIN loggers, method \in Methods,
                   args \in {<< >>, <<StringValue(Secret)>>} :
          LogfCall(l, method, <<"u", "=", "%s">>, args)
    \/ Return

SpecLevel == Init /\ [][NextLevel]_vars

\* C18: a Debug, Info, Warn or Error call, plain or formatted, is always
\* handed to the engine of its Logger, and the engine writes the entry if
\* and only if the severity of the call is at or above the level the Logger
\* was configured with.
C18_LevelFiltering ==
    (call.op \in {"Debug", "Info", "Warn", "Error", "Debugf", "Infof", "Warnf", "Errorf"}) =>
        /\ handed # NoEntry
        /\ handed.engine = loggers[call.recv].zapLogger
        /\ (Emitted # NoEntry) <=> (SeverityOf(call.op) >= engines[handed.engine].configLevel)

\* an Info call on a Logger configured at WarnLevel: handed over, not written
C18_Witness ==
    /\ call.op = "Info"
    /\ engines[loggers[call.recv].zapLogger].configLevel = WarnLevel
    /\ handed # NoEntry
    /\ Emitted = NoEntry

\* C19 as claimed: a Trace or Tracef entry is written only by a Logger
\* configured at TraceLevel; under every other configured level it is
\* filtered out.
C19_TraceOnlyAtTraceLevel ==
    (call.op \in {"Trace", "Tracef"} /\ Emitted # NoEntry) =>
        engines[handed.engine].configLevel = TraceLevel


(***************************************************************************)
(* Construction under every configuration (SpecNew): New and Init, with a  *)
(* file system that lets the output file be opened or not.                 *)
(***************************************************************************)
NextNew ==
    \/ Idle /\ \E config \in InitConfigs, canOpen \in BOOLEAN : NewCall(config, canOpen)
    \/ Idle /\ \E config \in InitConfigs, canOpen \in BOOLEAN : InitCall(config, canOpen)
    \/ Return

SpecNew == Init /\ [][NextNew]_vars

\* C20 as claimed: a New, or an Init that constructs, with a configuration
\* that is not nil never panics; when the file named by the configuration
\* cannot be opened it returns an error and no Logger; in every other case
\* it returns a Logger and no error.
C20_UnopenableFileIsError ==
    [][ (/\ Idle
         /\ call'.op \in {"New", "Init"}
         /\ call'.op = "Init" => ~once
         /\ ~call'.in[1].isNil) =>
            LET unopenable == call'.in[1].OutputPath # "" /\ ~call'.in[2]
                err == IF call'.op = "New" THEN call'.out[2] ELSE call'.out[1]
            IN  /\ process' = Running
                /\ unopenable =>
                      /\ err # NoError
                      /\ loggers' = loggers
                      /\ call'.op = "New" => call'.out[1] = Nil
                      /\ call'.op = "Init" => defaultLogger' = Nil
                /\ ~unopenable =>
                      /\ err = NoError
                      /\ Len(loggers') = Len(loggers) + 1
      ]_vars


(***************************************************************************)
(* The default slot under concurrent callers.  Init is the steps of        *)
(* sync.Once.Do around `defaultLogger, err = New(config)`: load done; if   *)
(* it is not set, lock m, test done again, run the function, store done,   *)
(* unlock.  A package-level function is the steps of                       *)
(* `if defaultLogger != nil { defaultLogger.M(...) }`: two plain reads of  *)
(* the slot and the call.                                                  *)
(***************************************************************************)
\* the fields of g's record that a step changes
GoTo(g, pc) == [goroutines EXCEPT ![g].pc = pc]

\* goroutine g calls Init(config); canOpen is what os.OpenFile would answer
BeginInit(g, config, canOpen) ==
    /\ process = Running
    /\ goroutines[g].pc = "idle"
    /\ goroutines' = [goroutines EXCEPT ![g].pc = "once.load", ![g].op = "Init",
                                        ![g].in = <<config, canOpen>>,
                                        ![g].seen = Nil, ![g].err = NoError]
    /\ UNCHANGED <<mp, sensitiveKeys, once, firstInit, defaultLogger, loggers, arrays, engines,
                   call, handed, process, held, sensitiveKeysMu, settled, changedAt, onceM>>

\* once.Do: if o.done.Load() == 0 { o.doSlow(f) }
OnceLoad(g) ==
    /\ process = Running
    /\ goroutines[g].pc = "once.load"
    /\ goroutines' = GoTo(g, IF once THEN "return" ELSE "once.lock")
    /\ UNCHANGED <<mp, sensitiveKeys, once, firstInit, defaultLogger, loggers, arrays, engines,
                   call, handed, process, held, sensitiveKeysMu, settled, changedAt, onceM>>

\* doSlow: o.m.Lock()
OnceLock(g) ==
    /\ process = Running
    /\ goroutines[g].pc = "once.lock"
    /\ onceM = Nil
    /\ onceM' = g
    /\ goroutines' = GoTo(g, "once.check")
    /\ UNCHANGED <<mp, sensitiveKeys, once, firstInit, defaultLogger, loggers, arrays, engines,
                   call, handed, process, held, sensitiveKeysMu, settled, changedAt>>

\* a doSlow that runs the function without testing done again
OnceCheckNoRecheck(g) ==
    /\ process = Running
    /\ goroutines[g].pc = "once.check"
    /\ goroutines' = GoTo(g, "new")
    /\ UNCHANGED <<mp, sensitiveKeys, once, firstInit, defaultLogger, loggers, arrays, engines,
                   call, handed, process, held, sensitiveKeysMu, settled, changedAt, onceM>>

\* doSlow: if o.done.Load() == 0 { defer o.done.Store(1); f() }, else unlock
OnceCheck(g) ==
    /\ process = Running
    /\ goroutines[g].pc = "once.check"
    /\ onceM' = IF once THEN Nil ELSE onceM
    /\ goroutines' = GoTo(g, IF once THEN "return" ELSE "new")
    /\ UNCHANGED <<mp, sensitiveKeys, once, firstInit, defaultLogger, loggers, arrays, engines,
                   call, handed, process, held, sensitiveKeysMu, settled, changedAt>>

\* the function of once.Do evaluates New(config); when New panics the
\* deferred Store and Unlock run and the panic, which nothing recovers, ends
\* the process
Construct(g) ==
    LET r == New(goroutines[g].in[1], goroutines[g].in[2])
    IN  /\ process = Running
        /\ goroutines[g].pc = "new"
        /\ loggers' = r.loggers
        /\ engines' = r.engines
        /\ once' = IF r.panic THEN TRUE ELSE once
        /\ onceM' = IF r.panic THEN Nil ELSE onceM
        /\ process' = IF r.panic THEN Panicking ELSE Running
        /\ goroutines' = [goroutines EXCEPT ![g].pc = IF r.panic THEN "panicked" ELSE "write",
                                            ![g].seen = r.logger, ![g].err = r.err,
                                            ![g].built = goroutines[g].built + 1]
        /\ UNCHANGED <<mp, sensitiveKeys, firstInit, defaultLogger, arrays,
                       call, handed, held, sensitiveKeysMu, settled, changedAt>>

\* the function of once.Do assigns defaultLogger: a plain write
SlotWrite(g) ==
    /\ process = Running
    /\ goroutines[g].pc = "write"
    /\ defaultLogger' = goroutines[g].seen
    /\ goroutines' = GoTo(g, "once.store")
    /\ UNCHANGED <<mp, sensitiveKeys, once, firstInit, loggers, arrays, engines,
                   call, handed, process, held, sensitiveKeysMu, settled, changedAt, onceM>>

\* the deferred o.done.Store(1)
OnceStore(g) ==
    /\ process = Running
    /\ goroutines[g].pc = "once.store"
    /\ once' = TRUE
    /\ goroutines' = GoTo(g, "once.unlock")
    /\ UNCHANGED <<mp, sensitiveKeys, firstInit, defaultLogger, loggers, arrays, engines,
                   call, handed, process, held, sensitiveKeysMu, settled, changedAt, onceM>>

\* the deferred o.m.Unlock()
OnceUnlock(g) ==
    /\ process = Running
    /\ goroutines[g].pc = "once.unlock"
    /\ onceM' = Nil
    /\ goroutines' = GoTo(g, "return")
    /\ UNCHANGED <<mp, sensitiveKeys, once, firstInit, defaultLogger, loggers, arrays, engines,
                   call, handed, process, held, sensitiveKeysMu, settled, changedAt>>

\* Init returns err.  History: what the first Init to return came to.
InitReturn(g) ==
    /\ process = Running
    /\ goroutines[g].pc = "return"
    /\ firstInit' = IF firstInit.made THEN firstInit
                    ELSE [made |-> TRUE, err |-> goroutines[g].err, panic |-> FALSE]
    /\ goroutines' = [goroutines EXCEPT ![g] = [IdleGoroutine EXCEPT !.built = goroutines[g].built]]
    /\ UNCHANGED <<mp, sensitiveKeys, once, defaultLogger, loggers, arrays, engines,
                   call, handed, process, held, sensitiveKeysMu, settled, changedAt, onceM>>

\* the package-level functions the goroutines call, the method each ends in
\* and the arguments it is given
PkgOps == {"logx.Info", "logx.Fatal", "logx.With", "logx.Sync"}

PkgMethodOf(op) ==
    CASE op = "logx.Info" -> "Info"
      [] op = "logx.Fatal" -> "Fatal"
      [] op = "logx.With" -> "With"
      [] op = "logx.Sync" -> "Sync"

PkgInputOf(op) ==
    CASE op = "logx.Info" -> <<Msg, <<PinField>>>>
      [] op = "logx.Fatal" -> <<Msg, << >>>>
      [] op = "logx.With" -> <<<<IdField>>>>
      [] op = "logx.Sync" -> <<NoError>>

\* goroutine g calls a package-level function
BeginPkg(g, op) ==
    /\ process = Running
    /\ goroutines[g].pc = "idle"
    /\ goroutines' = [goroutines EXCEPT ![g].pc = "test", ![g].op = op,
                                        ![g].in = PkgInputOf(op), ![g].seen = Nil]
    /\ UNCHANGED <<mp, sensitiveKeys, once, firstInit, defaultLogger, loggers, arrays, engines,
                   call, handed, process, held, sensitiveKeysMu, settled, changedAt, onceM>>

\* if defaultLogger != nil: a plain read
SlotTest(g) ==
    /\ process = Running
    /\ goroutines[g].pc = "test"
    /\ goroutines' = GoTo(g, IF defaultLogger # Nil THEN "load" ELSE "else")
    /\ UNCHANGED <<mp, sensitiveKeys, once, firstInit, defaultLogger, loggers, arrays, engines,
                   call, handed, process, held, sensitiveKeysMu, settled, changedAt, onceM>>

\* the receiver of defaultLogger.M(...): a second plain read
SlotLoad(g) ==
    /\ process = Running
    /\ goroutines[g].pc = "load"
    /\ goroutines' = [goroutines EXCEPT ![g].pc = "use", ![g].seen = defaultLogger]
    /\ UNCHANGED <<mp, sensitiveKeys, once, firstInit, defaultLogger, loggers, arrays, engines,
                   call, handed, process, held, sensitiveKeysMu, settled, changedAt, onceM>>

\* the method runs on the Logger that was read, and the function returns
PkgUse(g) ==
    LET r == LoggerMethod(goroutines[g].seen, PkgMethodOf(goroutines[g].op), goroutines[g].in)
    IN  /\ process = Running
        /\ goroutines[g].pc = "use"
        /\ Len(r.loggers) <= MaxLoggers
        /\ handed' = r.entry
        /\ arrays' = r.arrays
        /\ loggers' = r.loggers
        /\ process' = r.process
        /\ goroutines' = [goroutines EXCEPT ![g] = [IdleGoroutine EXCEPT !.built = goroutines[g].built]]
        /\ UNCHANGED <<mp, sensitiveKeys, once, firstInit, defaultLogger, engines,
                       call, held, sensitiveKeysMu, settled, changedAt, onceM>>

\* the slot was nil: Fatal calls os.Exit(1), With and Sync return nil, the
\* others return
PkgElse(g) ==
    /\ process = Running
    /\ goroutines[g].pc = "else"
    /\ process' = IF goroutines[g].op = "logx.Fatal" THEN Exited(1) ELSE Running
    /\ goroutines' = [goroutines EXCEPT ![g] = [IdleGoroutine EXCEPT !.built = goroutines[g].built]]
    /\ UNCHANGED <<mp, sensitiveKeys, once, firstInit, defaultLogger, loggers, arrays, engines,
                   call, handed, held, sensitiveKeysMu, settled, changedAt, onceM>>

\* goroutines that call Init and the package-level functions at once
NextSlot ==
    \/ \E g \in Goroutines, canOpen \in BOOLEAN : BeginInit(g, FileConfig, canOpen)
    \/ \E g \in Goroutines : OnceLoad(g)
    \/ \E g \in Goroutines : OnceLock(g)
    \/ \E g \in Goroutines : OnceCheck(g)
    \/ \E g \in Goroutines : Construct(g)
    \/ \E g \in Goroutines : SlotWrite(g)
    \/ \E g \in Goroutines : OnceStore(g)
    \/ \E g \in Goroutines : OnceUnlock(g)
    \/ \E g \in Goroutines : InitReturn(g)
    \/ \E g \in Goroutines, op \in PkgOps : BeginPkg(g, op)
    \/ \E g \in Goroutines : SlotTest(g)
    \/ \E g \in Goroutines : SlotLoad(g)
    \/ \E g \in Goroutines : PkgUse(g)
    \/ \E g \in Goroutines : PkgElse(g)

SpecSlot == Init /\ [][NextSlot]_vars

\* C22 as claimed: the slot is never about to be written by one goroutine
\* while another is about to read it, with nothing that orders the two.
C22_NoSlotRace ==
    ~ \E w, g \in Goroutines :
          /\ w # g
          /\ goroutines[w].pc = "write"
          /\ goroutines[g].pc \in {"test", "load"}

\* what the concurrent Init calls are given: a configuration that succeeds,
\* one whose file cannot be opened, and none
OnceInputs == {<<DefaultConfig, TRUE>>, <<FileConfig, FALSE>>, <<NilConfig, TRUE>>}

\* goroutines that all call Init
NextOnce ==
    \/ \E g \in Goroutines, in \in OnceInputs : BeginInit(g, in[1], in[2])
    \/ \E g \in Goroutines : OnceLoad(g)
    \/ \E g \in Goroutines : OnceLock(g)
    \/ \E g \in Goroutines : OnceCheck(g)
    \/ \E g \in Goroutines : Construct(g)
    \/ \E g \in Goroutines : SlotWrite(g)
    \/ \E g \in Goroutines : OnceStore(g)
    \/ \E g \in Goroutines : OnceUnlock(g)
    \/ \E g \in Goroutines : InitReturn(g)

SpecOnce == Init /\ [][NextOnce]_vars

\* how many times New was run for Init, over all goroutines
RECURSIVE BuiltUpTo(_, _)
BuiltUpTo(gs, n) == IF n = 0 THEN 0 ELSE gs[n].built + BuiltUpTo(gs, n - 1)

Built(gs) == BuiltUpTo(gs, MaxGoroutines)

\* some goroutine is between the start of the construction and the store of
\* its result
Constructing(gs) == \E g \in Goroutines : gs[g].pc \in {"new", "write"}

\* C28: among concurrent Init calls the construction is never run twice, and
\* once any Init has returned the construction has been run exactly once, it
\* is over, and the default slot never changes again.
C28_InitOnceAmongGoroutines ==
    [][/\ Built(goroutines') <= 1
       /\ firstInit'.made => Built(goroutines') = 1 /\ ~Constructing(goroutines')
       /\ firstInit.made => defaultLogger' = defaultLogger]_vars

\* an Init has returned with the slot filled while another goroutine, which
\* had to wait for the latch, is still inside its own Init
C28_Witness ==
    /\ firstInit.made
    /\ defaultLogger # Nil
    /\ \E g \in Goroutines : goroutines[g].pc = "once.check"

\* C23 as claimed: under a sensitive key every byte sequence, the empty one
\* included, comes back as text: the string-masking of its text form.
C23_BytesMaskedAsText ==
    (call.op = "maskSensitiveData" /\ isSensitiveKey(call.in[1])
        /\ call.in[2].kind = "[]byte") =>
        /\ call.out[1].kind = "string"
        /\ call.out[1].val = maskString(call.in[2].val)

\* the bytes of key do not include an upper-case letter
IsLowerCase(key) ==
    \A i \in 1..Len(key) : \A j \in 1..26 : key[i] # UpperCase[j]

\* C24: whatever keys were added and removed, in whatever case, every key
\* stored in the registry is lowercase.
C24_StoredKeysLowercase == \A key \in sensitiveKeys : IsLowerCase(key)

\* a custom key added in mixed case next to one added in upper case
C24_Witness ==
    /\ call.op = "AddSensitiveKey"
    /\ call.in[1] = <<"u","I","d">>
    /\ {<<"u","i","d">>, <<"i","d">>} \subseteq sensitiveKeys
    /\ <<"p","i","n">> \notin sensitiveKeys

(***************************************************************************)
(* Log calls made at once by several goroutines, on Loggers that share     *)
(* what With gave them.  A leveled call is two steps: the append that      *)
(* builds allFields, then convertFields and the call of the engine, which  *)
(* read allFields as the heap shows it then.  A formatted call formats its *)
(* message and is the leveled call with no fields.                         *)
(***************************************************************************)
\* goroutine g calls l.<method>(msg, fields...), which begins with
\* allFields := append(l.fields, fields...): in the backing array of l.fields
\* when it has room, else in a new array that only this call knows
LogAppend(g, l, method, msg, fields) ==
    LET all == allFields(l, fields)
        shared == all.slice.arr = loggers[l].fields.arr
    IN  /\ goroutines[g].pc = "idle"
        /\ arrays' = IF shared THEN all.heap ELSE arrays
        /\ goroutines' = [goroutines EXCEPT
               ![g].pc = "convert",
               ![g].op = method,
               ![g].in = <<l, msg, fields>>,
               ![g].all = [shared |-> shared,
                           slice |-> IF shared THEN all.slice ELSE EmptySlice,
                           elems |-> IF shared THEN << >> ELSE Elems(all.heap, all.slice)]]
        /\ UNCHANGED <<mp, sensitiveKeys, once, firstInit, defaultLogger, loggers, engines,
                       call, handed, process, held, sensitiveKeysMu, settled, changedAt, onceM>>

\* goroutine g calls l.<method>f(format, args...):
\* msg := fmt.Sprintf(format, args...); l.<method>(msg)
LogfAppend(g, l, method, format, args) ==
    LogAppend(g, l, method, Sprintf(format, args), << >>)

\* zapFields := l.convertFields(allFields); l.zapLogger.<Method>(msg, zapFields...)
LogEmit(g) ==
    LET l == goroutines[g].in[1]
        all == goroutines[g].all
        op == goroutines[g].op
    IN  /\ goroutines[g].pc = "convert"
        /\ handed' = [engine |-> loggers[l].zapLogger,
                      level |-> ZapMethodOf(IF op \in Methods THEN op ELSE LeveledOf(op)),
                      msg |-> goroutines[g].in[2],
                      fields |-> convertFields(IF all.shared THEN Elems(arrays, all.slice)
                                               ELSE all.elems)]
        /\ goroutines' = [goroutines EXCEPT ![g] = IdleGoroutine]
        /\ UNCHANGED <<mp, sensitiveKeys, once, firstInit, defaultLogger, loggers, arrays, engines,
                       call, process, held, sensitiveKeysMu, settled, changedAt, onceM>>

\* the goroutines that log, and the call-site fields they give
LogCallers == 1..MaxLogCallers
LogFieldSeqs == { <<PinField>>, <<IdField>> }

\* one Logger from New, its child, the child of that one and so on, and
\* leveled and formatted calls on all of them from several goroutines
NextLog ==
    \/ Idle /\ loggers = << >> /\ NewCall(DefaultConfig, TRUE)
    \/ Idle /\ loggers # << >> /\ WithCall(Len(loggers), <<PinField>>)
    \/ Return
    \/ \E g \in LogCallers, l \in DOMAIN loggers, fields \in LogFieldSeqs :
          LogAppend(g, l, "Info", Msg, fields)
    \/ \E g \in LogCallers, l \in DOMAIN loggers :
          LogfAppend(g, l, "Infof", <<"u", "=", "%s">>, <<StringValue(Secret)>>)
    \/ \E g \in LogCallers : LogEmit(g)

SpecLog == Init /\ [][NextLog]_vars

\* C25: no step of a log call, leveled or formatted, changes a Logger or what
\* its sticky fields show; the append of a log call writes into no array
\* that a Logger can see; and what a log call hands to the engine is the
\* sticky fields of its Logger and its own call-site fields, never a field
\* given to another call.
C25_LogCallsLeaveSticky ==
    [][ /\ \A l \in DOMAIN loggers :
              /\ l \in DOMAIN loggers'
              /\ loggers'[l] = loggers[l]
              /\ Elems(arrays', loggers'[l].fields) = Sticky(l)
        /\ \A g \in Goroutines :
              /\ (goroutines[g].pc = "idle" /\ goroutines'[g].pc = "convert") =>
                    arrays' = arrays
              /\ (goroutines[g].pc = "convert" /\ goroutines'[g].pc = "idle") =>
                    MaskedAs(handed'.fields,
                             Sticky(goroutines[g].in[1]) \o goroutines[g].in[3])
      ]_vars

\* a call on a child has handed over its fields while a call on the same
\* child with another call-site field and a formatted call on the parent
\* are past their append
C25_Witness ==
    /\ Len(loggers) >= 2
    /\ Sticky(2) = <<PinField>>
    /\ handed.engine = loggers[2].zapLogger
    /\ Len(handed.fields) = 2
    /\ handed.fields[2].Key = IdField.Key
    /\ \E g, h \in Goroutines :
          /\ goroutines[g].pc = "convert"
          /\ goroutines[g].in[1] = 2
          /\ goroutines[g].in[3] = <<PinField>>
          /\ goroutines[h].pc = "convert"
          /\ goroutines[h].op = "Infof"

\* the characters of a text: the bytes C3 A9 together are one character
\* (U+00E9), every other byte stands for itself
RECURSIVE Chars(_)
Chars(t) ==
    IF Len(t) = 0 THEN << >>
    ELSE IF Len(t) >= 2 /\ t[1] = "C3" /\ t[2] = "A9"
    THEN <<SubSeq(t, 1, 2)>> \o Chars(SubSeq(t, 3, Len(t)))
    ELSE <<SubSeq(t, 1, 1)>> \o Chars(Tail(t))

\* the text is valid UTF-8: C3 and A9 only occur as the pair C3 A9
WellFormed(t) == \A i \in 1..Len(Chars(t)) : Chars(t)[i] \notin {<<"C3">>, <<"A9">>}

\* C26 as claimed: the string-masking rule counts and slices a valid text in
\* characters, so every kept prefix and suffix is made of whole characters.
C26_MaskCountsCharacters ==
    (call.op = "maskSensitiveData" /\ isSensitiveKey(call.in[1])
        /\ call.in[2].kind = "string" /\ WellFormed(call.in[2].val)) =>
        LET cs == Chars(call.in[2].val)
            L == Len(cs)
            out == call.out[1].val
        IN  /\ L = 0 => out = << >>
            /\ L \in {1, 2} => out = Stars
            /\ L \in {3, 4} => out = cs[1] \o Stars \o cs[L]
            /\ L >= 5 => out = cs[1] \o cs[2] \o Stars \o cs[L - 1] \o cs[L]
            /\ WellFormed(out)

\* C27 as claimed: under a sensitive key the masked form of a non-empty text
\* is never the text itself.
C27_MaskedDiffers ==
    (call.op = "maskSensitiveData" /\ isSensitiveKey(call.in[1])
        /\ call.in[2].kind = "string" /\ call.in[2].val # << >>) =>
        call.out[1].val # call.in[2].val

\* C27 amended: under a sensitive key the masked form of a non-empty text is
\* the text itself exactly when the text is seven bytes long with "***" as
\* its third to fifth bytes; every other non-empty text comes out changed.
C27_MaskedDiffersUnlessMaskShaped ==
    (call.op = "maskSensitiveData" /\ isSensitiveKey(call.in[1])
        /\ call.in[2].kind = "string" /\ call.in[2].val # << >>) =>
        LET v == call.in[2].val
        IN  (call.out[1].val = v) <=> (Len(v) = 7 /\ SubSeq(v, 3, 5) = Stars)

\* a seven-byte text with another middle, which comes out changed
C27_Witness ==
    /\ call.op = "maskSensitiveData"
    /\ isSensitiveKey(call.in[1])
    /\ call.in[2] = StringValue(<<"a", "a", "*", "a", "*", "a", "a">>)
    /\ call.out[1] = StringValue(<<"a", "a", "*", "*", "*", "a", "a">>)

ProfilerStep(new) ==
    /\ mp' = new
    /\ UNCHANGED <<sensitiveKeys, once, firstInit, defaultLogger, loggers, arrays, engines,
                   call, handed, process, held, conc, changedAt, onceM>>

\* Start: mp.mu.Lock()
StartLock ==
    /\ mp.caller = "idle"
    /\ mp.mu = "none"
    /\ ProfilerStep([mp EXCEPT !.mu = "caller", !.caller = "start.body"])

\* Start: samples reset, samplingEnabled = true, mp.wg.Add(1), go mp.sampleMemory()
StartBody ==
    /\ mp.caller = "start.body"
    /\ ProfilerStep([mp EXCEPT !.samples = 0, !.samplingEnabled = TRUE, !.wg = @ + 1,
                               !.sampler = "ticker", !.caller = "start.unlock"])

\* Start returns: the deferred mp.mu.Unlock()
StartUnlock ==
    /\ mp.caller = "start.unlock"
    /\ ProfilerStep([mp EXCEPT !.mu = "none", !.caller = "running"])

\* Stop: mp.mu.Lock()
StopLock ==
    /\ mp.caller = "running"
    /\ mp.mu = "none"
    /\ ProfilerStep([mp EXCEPT !.mu = "caller", !.caller = "stop.disable"])

\* Stop: mp.samplingEnabled = false
StopDisable ==
    /\ mp.caller = "stop.disable"
    /\ ProfilerStep([mp EXCEPT !.samplingEnabled = FALSE, !.caller = "stop.close"])

\* Stop: close(mp.stopChan)
StopClose ==
    /\ mp.caller = "stop.close"
    /\ ProfilerStep([mp EXCEPT !.closed = TRUE, !.caller = "stop.wait"])

\* Stop: mp.wg.Wait(), with the mutex still held
StopWait ==
    /\ mp.caller = "stop.wait"
    /\ mp.wg = 0
    /\ ProfilerStep([mp EXCEPT !.caller = "stop.report"])

\* Stop: the report is made and returned, the deferred mp.mu.Unlock() runs
StopReturn ==
    /\ mp.caller = "stop.report"
    /\ ProfilerStep([mp EXCEPT !.report = TRUE, !.mu = "none", !.caller = "stopped"])

\* sampleMemory: ticker := time.NewTicker(100 * time.Millisecond)
SamplerBegin ==
    /\ mp.sampler = "ticker"
    /\ ProfilerStep([mp EXCEPT !.ticking = TRUE, !.sampler = "select"])

\* the ticker fires: a value is put in ticker.C, which holds one
Tick ==
    /\ mp.ticking
    /\ ~mp.tick
    /\ mp.samples < MaxSamples
    /\ ProfilerStep([mp EXCEPT !.tick = TRUE])

\* sampleMemory: case <-mp.stopChan: return, and the deferred ticker.Stop()
SelectStop ==
    /\ mp.sampler = "select"
    /\ mp.closed
    /\ ProfilerStep([mp EXCEPT !.ticking = FALSE, !.sampler = "return"])

\* sampleMemory: the deferred mp.wg.Done()
SamplerDone ==
    /\ mp.sampler = "return"
    /\ ProfilerStep([mp EXCEPT !.wg = @ - 1, !.sampler = "done"])

\* sampleMemory: case <-ticker.C: mp.takeSample()
SelectTick ==
    /\ mp.sampler = "select"
    /\ mp.tick
    /\ ProfilerStep([mp EXCEPT !.tick = FALSE, !.sampler = "take.lock"])

\* takeSample: mp.mu.Lock()
TakeLock ==
    /\ mp.sampler = "take.lock"
    /\ mp.mu = "none"
    /\ ProfilerStep([mp EXCEPT !.mu = "sampler", !.sampler = "take.body"])

\* takeSample: return if sampling is off, else append the sample; then the
\* deferred mp.mu.Unlock()
TakeSample ==
    /\ mp.sampler = "take.body"
    /\ ProfilerStep([mp EXCEPT !.samples = IF mp.samplingEnabled THEN @ + 1 ELSE @,
                               !.mu = "none", !.sampler = "select"])

NextProfiler ==
    \/ StartLock
    \/ StartBody
    \/ StartUnlock
    \/ StopLock
    \/ StopDisable
    \/ StopClose
    \/ StopWait
    \/ StopReturn
    \/ SamplerBegin
    \/ Tick
    \/ SelectStop
    \/ SamplerDone
    \/ SelectTick
    \/ TakeLock
    \/ TakeSample

SpecProfiler == Init /\ [][NextProfiler]_vars

\* C30 as claimed, in the form a finite run refutes: Stop is never left
\* waiting for the sampler to exit while the sampler waits for the mutex
\* that Stop holds, a state neither of them can leave.
C30_StopNeverStuck ==
    ~ /\ mp.caller = "stop.wait"
      /\ mp.wg > 0
      /\ mp.mu = "caller"
      /\ mp.sampler = "take.lock"

\* C21 as claimed: the Logger New returns writes to the file named by
\* config.OutputPath whenever that path is not empty, and to standard output
\* only when it is empty, under the console and the JSON encoding alike.
C21_OutputFollowsPath ==
    (call.op = "New" /\ call.out[1] # Nil) =>
        LET engine == engines[loggers[call.out[1]].zapLogger]
            path == call.in[1].OutputPath
        IN  /\ engine.encoder = IF call.in[1].Development THEN "console" ELSE "json"
            /\ engine.output = IF path # "" THEN path ELSE "stdout"

====
